---- MODULE Spec2Model ----
(***************************************************************************)
(* The filter pipeline of pongo2 (filters.go): the process-wide filter     *)
(* registry (a sync.Map), ApplyFilter, and the parse of one filter.        *)
(* Every sync.Map operation (Load, Store, Swap, Delete) is one atomic      *)
(* step; a function of filters.go that performs two of them is two steps,  *)
(* so that callers on other goroutines may run in between.                 *)
(***************************************************************************)
EXTENDS Integers, Sequences, FiniteSets, TLC

\* Number of goroutines calling into the package concurrently.
NumProcs == 2
\* Number of calls the sequential caller makes (the length of its history).
MaxHist == 3
\* Number of filters in the chain of the parsed template.
MaxChain == 2

Procs == 1..NumProcs
\* The goroutine that makes the calls of the sequential specification.
Caller == CHOOSE p \in Procs : TRUE

\* Filter names callers register and look up.
Names == {"double", "neg"}
\* Filter functions (values of type FilterFunction) callers register.
Fns == {"fDouble", "fNeg"}
\* The nil FilterFunction.
NilFn == "nil"

VARIABLES
    filters,  \* the sync.Map: a function from the registered names to functions
    pc,       \* per goroutine: "idle", or the step its current call is at
    call,     \* per goroutine: the arguments of its current (or last) call
    ret,      \* per goroutine: what its last completed call returned
    prior,    \* per goroutine inside OverrideFilter: what its Delete removed
    observed, \* names some FilterExists call has found registered, with no
              \* write of OverrideFilter or ReplaceFilter to them since
    hist,     \* the sequential caller's history of calls (SeqSpec only)
    tmpl,     \* the filter chain of the template being parsed: its nodes
    bound,    \* per node of tmpl: the function its name had when it was
              \* parsed, and the node as parseFilter returned it
    tmplDone, \* the parse of the template has returned the chain
    rend      \* per goroutine: its current (or last) render of the chain

renderVars == <<tmpl, bound, tmplDone, rend>>
vars == <<filters, pc, call, ret, prior, observed, hist, tmpl, bound, tmplDone, rend>>

(***************************************************************************)
(* Values, errors, tokens                                                  *)
(***************************************************************************)

\* A Go value of type any: nil or a number.
GoNil == [isNil |-> TRUE, num |-> 0]
GoInt(i) == [isNil |-> FALSE, num |-> i]

\* A nil *Value.
NilPtr == [ptr |-> FALSE, isNil |-> TRUE, num |-> 0]
\* AsValue(i): a non-nil *Value wrapping i; AsValue(nil) is the
\* "no parameter" sentinel.
AsValue(i) == [ptr |-> TRUE, isNil |-> i.isNil, num |-> i.num]

\* The Go error interface: nil, or fmt.Errorf(format, name).
ErrNil == [msg |-> "", name |-> ""]
Errorf(format, name) == [msg |-> format, name |-> name]

\* A nil *Token and a token of the stream.
NilToken == [typ |-> "", val |-> "", pos |-> 0]

\* The nil *Template: an error that names no template.
NilTemplate == ""

\* A nil *Error and &Error{Sender, OrigError, Token}; Template is the
\* template the error is located in, nil until one is attached.
NilError == [ptr |-> FALSE, Sender |-> "", OrigError |-> ErrNil, Token |-> NilToken,
             Template |-> NilTemplate]
NewError(sender, orig, token) ==
    [ptr |-> TRUE, Sender |-> sender, OrigError |-> orig, Token |-> token,
     Template |-> NilTemplate]

\* The bound-variable mapping handed through to filter functions.
Bind == "bind"

(***************************************************************************)
(* sync.Map                                                                *)
(***************************************************************************)

\* m.Load(key): (value, ok).
Load(m, key) ==
    IF key \in DOMAIN m THEN [value |-> m[key], ok |-> TRUE]
                        ELSE [value |-> NilFn, ok |-> FALSE]

\* m.Store(key, value).
Store(m, key, value) ==
    [k \in (DOMAIN m) \cup {key} |-> IF k = key THEN value ELSE m[k]]

\* m.Swap(key, value): stores value whether or not key is present.
Swap(m, key, value) ==
    [k \in (DOMAIN m) \cup {key} |-> IF k = key THEN value ELSE m[k]]

\* m.Delete(key).
Delete(m, key) == [k \in (DOMAIN m) \ {key} |-> m[k]]

\* The empty map of new(sync.Map).
EmptyMap == [k \in {} |-> NilFn]

(***************************************************************************)
(* Filter functions                                                        *)
(***************************************************************************)

\* The location an error of fNeg already carries when fNeg returns it.
InnerToken == [typ |-> "Identifier", val |-> "inner", pos |-> 9]
InnerTemplate == "inner.tpl"

\* fn(in, param, bind): (out, err) for the functions of Fns: fDouble
\* multiplies a number by two, fNeg negates a number. Both fail on an input
\* that is no number: fDouble with an error that carries no location, fNeg
\* with an error that carries a location of its own.
CallFn(fn, in, param, bind) ==
    IF fn = "fDouble"
    THEN IF in.isNil
         THEN [out |-> NilPtr,
               err |-> NewError("filter:double", Errorf("not a number", ""), NilToken)]
         ELSE [out |-> AsValue(GoInt(2 * in.num)), err |-> NilError]
    ELSE IF in.isNil
         THEN [out |-> NilPtr,
               err |-> [NewError("filter:neg", Errorf("not a number", ""), InnerToken)
                            EXCEPT !.Template = InnerTemplate]]
         ELSE [out |-> AsValue(GoInt(0 - in.num)), err |-> NilError]

\* The record of one invocation of a filter function, and of none.
NoCall == [called |-> FALSE, fn |-> NilFn, in |-> NilPtr, param |-> NilPtr, bind |-> ""]
Invocation(fn, in, param, bind) ==
    [called |-> TRUE, fn |-> fn, in |-> in, param |-> param, bind |-> bind]

(***************************************************************************)
(* Parser and evaluator collaborators (parser.go, not part of filters.go)  *)
(***************************************************************************)

Token(typ, val, pos) == [typ |-> typ, val |-> val, pos |-> pos]

\* The token at the parser's position, or nil past the end of the stream.
Current(tokens, idx) == IF idx <= Len(tokens) THEN tokens[idx] ELSE NilToken

\* p.MatchType(typ): the current token if it has that type (and it is
\* consumed), nil otherwise.
MatchType(tokens, idx, typ) ==
    IF idx <= Len(tokens) /\ tokens[idx].typ = typ THEN tokens[idx] ELSE NilToken

\* p.Match(typ, val) and p.Peek(typ, val): the current token if it has that
\* type and value; Match consumes it, Peek does not.
Peek(tokens, idx, typ, val) ==
    IF idx <= Len(tokens) /\ tokens[idx].typ = typ /\ tokens[idx].val = val
    THEN tokens[idx] ELSE NilToken
Match(tokens, idx, typ, val) == Peek(tokens, idx, typ, val)

\* p.Error(msg, token): a parser error located at token, or at the parser's
\* current position when token is nil.
ParserError(msg, name, token, cur) ==
    NewError("parser", Errorf(msg, name), IF token = NilToken THEN cur ELSE token)

\* A nil IEvaluator, and the expressions parseVariableOrLiteral builds.
NilEval == [kind |-> "nil", text |-> ""]
Evaluator(kind, text) == [kind |-> kind, text |-> text]

\* p.parseVariableOrLiteral(): a literal from a number token, a variable
\* reference from an identifier token, an error from anything else.
parseVariableOrLiteral(tokens, idx) ==
    LET t == Current(tokens, idx) IN
    IF t.typ = "Number" THEN [v |-> Evaluator("literal", t.val), err |-> NilError]
    ELSE IF t.typ = "Identifier" THEN [v |-> Evaluator("variable", t.val), err |-> NilError]
    ELSE [v |-> NilEval, err |-> ParserError("Unexpected token.", "", NilToken, t)]

(***************************************************************************)
(* filterCall and parseFilter                                              *)
(***************************************************************************)

\* A nil *filterCall and &filterCall{token, name, parameter, filterFunc}.
NilNode == [ptr |-> FALSE, token |-> NilToken, name |-> "", parameter |-> NilEval,
            filterFunc |-> NilFn]
FilterCall(token, name, parameter, filterFunc) ==
    [ptr |-> TRUE, token |-> token, name |-> name, parameter |-> parameter,
     filterFunc |-> filterFunc]

\* The argument part of parseFilter (':' ARG), from position idx, for the
\* node bound to filterFn.
parseFilterArg(tokens, idx, identToken, filterFn) ==
    IF Match(tokens, idx, "Symbol", ":") # NilToken
    THEN IF Peek(tokens, idx + 1, "Symbol", "}}") # NilToken
         THEN [node |-> NilNode,
               err |-> ParserError("Filter parameter required after ':'.", "",
                                   NilToken, Current(tokens, idx + 1))]
         ELSE LET r == parseVariableOrLiteral(tokens, idx + 1) IN
              IF r.err # NilError
              THEN [node |-> NilNode, err |-> r.err]
              ELSE [node |-> FilterCall(identToken, identToken.val, r.v, filterFn),
                    err |-> NilError]
    ELSE [node |-> FilterCall(identToken, identToken.val, NilEval, filterFn),
          err |-> NilError]

\* parseFilter reporting the unknown filter without the identifier token.
parseFilterNoLocation(m, tokens) ==
    LET identToken == MatchType(tokens, 1, "Identifier") IN
    IF identToken = NilToken
    THEN [node |-> NilNode,
          err |-> ParserError("Filter name must be an identifier.", "", NilToken,
                              Current(tokens, 1))]
    ELSE LET l == Load(m, identToken.val) IN
         IF ~l.ok
         THEN [node |-> NilNode,
               err |-> ParserError("Filter '%s' does not exist.", identToken.val,
                                   NilToken, Current(tokens, 2))]
         ELSE parseFilterArg(tokens, 2, identToken, l.value)

\* p.parseFilter() on the token stream, against the registry m.
parseFilter(m, tokens) ==
    LET identToken == MatchType(tokens, 1, "Identifier") IN
    IF identToken = NilToken
    THEN [node |-> NilNode,
          err |-> ParserError("Filter name must be an identifier.", "", NilToken,
                              Current(tokens, 1))]
    ELSE LET l == Load(m, identToken.val) IN
         IF ~l.ok
         THEN [node |-> NilNode,
               err |-> ParserError("Filter '%s' does not exist.", identToken.val,
                                   identToken, Current(tokens, 2))]
         ELSE parseFilterArg(tokens, 2, identToken, l.value)

(***************************************************************************)
(* ApplyFilter                                                             *)
(***************************************************************************)

\* applyFilter with the Sender tag of the error left out.
applyFilterNoSender(m, name, value, param, bind) ==
    LET l == Load(m, name) IN
    IF ~l.ok
    THEN [value |-> NilPtr,
          err |-> NewError("", Errorf("filter with name '%s' not found", name), NilToken),
          invoked |-> NoCall]
    ELSE LET prm == IF param = NilPtr THEN AsValue(GoNil) ELSE param
             r == CallFn(l.value, value, prm, bind)
         IN [value |-> r.out, err |-> r.err,
             invoked |-> Invocation(l.value, value, prm, bind)]

\* applyFilter without the substitution of AsValue(nil) for a nil param.
applyFilterNoSentinel(m, name, value, param, bind) ==
    LET l == Load(m, name) IN
    IF ~l.ok
    THEN [value |-> NilPtr,
          err |-> NewError("applyfilter", Errorf("filter with name '%s' not found", name),
                           NilToken),
          invoked |-> NoCall]
    ELSE LET r == CallFn(l.value, value, param, bind)
         IN [value |-> r.out, err |-> r.err,
             invoked |-> Invocation(l.value, value, param, bind)]

\* applyFilter wrapping the function's error as an error of its own.
applyFilterWrapError(m, name, value, param, bind) ==
    LET l == Load(m, name) IN
    IF ~l.ok
    THEN [value |-> NilPtr,
          err |-> NewError("applyfilter", Errorf("filter with name '%s' not found", name),
                           NilToken),
          invoked |-> NoCall]
    ELSE LET prm == IF param = NilPtr THEN AsValue(GoNil) ELSE param
             r == CallFn(l.value, value, prm, bind)
         IN [value |-> r.out,
             err |-> IF r.err = NilError THEN NilError
                     ELSE NewError("applyfilter", r.err.OrigError, r.err.Token),
             invoked |-> Invocation(l.value, value, prm, bind)]

\* ApplyFilter(name, value, param, bind) against the registry m: what it
\* returns and the invocation of the filter function it made.
applyFilter(m, name, value, param, bind) ==
    LET l == Load(m, name) IN
    IF ~l.ok
    THEN [value |-> NilPtr,
          err |-> NewError("applyfilter", Errorf("filter with name '%s' not found", name),
                           NilToken),
          invoked |-> NoCall]
    ELSE LET prm == IF param = NilPtr THEN AsValue(GoNil) ELSE param
             r == CallFn(l.value, value, prm, bind)
         IN [value |-> r.out, err |-> r.err,
             invoked |-> Invocation(l.value, value, prm, bind)]

(***************************************************************************)
(* filterCall.Execute and its collaborators                                *)
(***************************************************************************)

\* The template the rendered chain belongs to (ctx.template).
MainTemplate == "main.tpl"

\* An ExecutionContext: the public bound variables (ctx.Public), the
\* owning template, and what the variable ArgVar resolves to: a number, or
\* a failure when ok is FALSE.
Context(public, ok, x) ==
    [public |-> public, template |-> MainTemplate, ok |-> ok, x |-> x]

\* The number a number token's text stands for.
NumOf(text) == CHOOSE n \in 0..9 : ToString(n) = text

\* parameter.Evaluate(ctx): a literal is its number in every context, a
\* variable reference is what the context resolves it to, or an error.
Evaluate(e, ctx) ==
    IF e.kind = "literal" THEN [v |-> AsValue(GoInt(NumOf(e.text))), err |-> NilError]
    ELSE IF ctx.ok THEN [v |-> AsValue(GoInt(ctx.x)), err |-> NilError]
    ELSE [v |-> NilPtr,
          err |-> NewError("execution", Errorf("cannot resolve '%s'", e.text), NilToken)]

\* err.updateFromTokenIfNeeded(template, token): the token and the template
\* are attached to an error that carries no location yet.
updateFromTokenIfNeeded(err, template, token) ==
    IF err.Token = NilToken /\ err.Template = NilTemplate
    THEN [err EXCEPT !.Token = token, !.Template = template]
    ELSE err

\* What Execute leaves behind: the value and the error it returns, the
\* invocation of the filter function it made, and the node it was called on
\* as the call leaves it.
Executed(value, err, invoked, fc) ==
    [value |-> value, err |-> err, invoked |-> invoked, fc |-> fc]

\* The call of the node's function and what Execute makes of its result.
ExecuteCall(fc, v, param, ctx) ==
    LET r == CallFn(fc.filterFunc, v, param, ctx.public) IN
    IF r.err # NilError
    THEN Executed(NilPtr, updateFromTokenIfNeeded(r.err, ctx.template, fc.token),
                  Invocation(fc.filterFunc, v, param, ctx.public), fc)
    ELSE Executed(r.out, NilError, Invocation(fc.filterFunc, v, param, ctx.public), fc)

\* Execute with late binding: the function is looked up in the registry by
\* the node's name at render time.
ExecuteLate(fc, v, ctx) ==
    LET late == [fc EXCEPT !.filterFunc = Load(filters, fc.name).value] IN
    IF fc.parameter # NilEval
    THEN LET e == Evaluate(fc.parameter, ctx) IN
         IF e.err # NilError
         THEN Executed(NilPtr, e.err, NoCall, fc)
         ELSE [ExecuteCall(late, v, e.v, ctx) EXCEPT !.fc = fc]
    ELSE [ExecuteCall(late, v, AsValue(GoNil), ctx) EXCEPT !.fc = fc]

\* Execute returning the value it was given instead of the function's result.
ExecuteKeepInput(fc, v, ctx) ==
    LET param == IF fc.parameter # NilEval THEN Evaluate(fc.parameter, ctx)
                 ELSE [v |-> AsValue(GoNil), err |-> NilError]
        r == ExecuteCall(fc, v, param.v, ctx)
    IN IF param.err # NilError
       THEN Executed(NilPtr, param.err, NoCall, fc)
       ELSE IF r.err # NilError THEN r
       ELSE [r EXCEPT !.value = v]

\* Execute attaching the node's location to the error of the parameter
\* evaluation.
ExecuteLocateParam(fc, v, ctx) ==
    LET param == IF fc.parameter # NilEval THEN Evaluate(fc.parameter, ctx)
                 ELSE [v |-> AsValue(GoNil), err |-> NilError]
    IN IF param.err # NilError
       THEN Executed(NilPtr, updateFromTokenIfNeeded(param.err, ctx.template, fc.token),
                     NoCall, fc)
       ELSE ExecuteCall(fc, v, param.v, ctx)

\* Execute returning the error of the filter function as it is, without
\* the node's location.
ExecuteNoLocation(fc, v, ctx) ==
    LET param == IF fc.parameter # NilEval THEN Evaluate(fc.parameter, ctx)
                 ELSE [v |-> AsValue(GoNil), err |-> NilError]
        r == CallFn(fc.filterFunc, v, param.v, ctx.public)
    IN IF param.err # NilError
       THEN Executed(NilPtr, param.err, NoCall, fc)
       ELSE Executed(IF r.err # NilError THEN NilPtr ELSE r.out, r.err,
                     Invocation(fc.filterFunc, v, param.v, ctx.public), fc)

\* Execute using up the parameter expression: the node is left without one.
ExecuteConsumeParam(fc, v, ctx) ==
    LET param == IF fc.parameter # NilEval THEN Evaluate(fc.parameter, ctx)
                 ELSE [v |-> AsValue(GoNil), err |-> NilError]
    IN IF param.err # NilError
       THEN Executed(NilPtr, param.err, NoCall, fc)
       ELSE [ExecuteCall(fc, v, param.v, ctx) EXCEPT !.fc.parameter = NilEval]

\* Execute caching the parameter: the node's parameter expression is
\* replaced by the literal of the value it evaluated to.
ExecuteCacheParam(fc, v, ctx) ==
    LET param == IF fc.parameter # NilEval THEN Evaluate(fc.parameter, ctx)
                 ELSE [v |-> AsValue(GoNil), err |-> NilError]
    IN IF param.err # NilError
       THEN Executed(NilPtr, param.err, NoCall, fc)
       ELSE IF fc.parameter = NilEval THEN ExecuteCall(fc, v, param.v, ctx)
       ELSE [ExecuteCall(fc, v, param.v, ctx)
                EXCEPT !.fc.parameter = Evaluator("literal", ToString(param.v.num))]

\* Execute swallowing the error of the filter function: it returns the
\* value it was given and no error.
ExecuteSwallow(fc, v, ctx) ==
    LET param == IF fc.parameter # NilEval THEN Evaluate(fc.parameter, ctx)
                 ELSE [v |-> AsValue(GoNil), err |-> NilError]
        r == ExecuteCall(fc, v, param.v, ctx)
    IN IF param.err # NilError
       THEN Executed(NilPtr, param.err, NoCall, fc)
       ELSE IF r.err # NilError THEN Executed(v, NilError, r.invoked, fc)
       ELSE r

\* fc.Execute(v, ctx): what it returns, the invocation of the filter
\* function it made, and the node after the call (Execute assigns to no
\* field of fc).
Execute(fc, v, ctx) ==
    IF fc.parameter # NilEval
    THEN LET e == Evaluate(fc.parameter, ctx) IN
         IF e.err # NilError
         THEN Executed(NilPtr, e.err, NoCall, fc)
         ELSE ExecuteCall(fc, v, e.v, ctx)
    ELSE ExecuteCall(fc, v, AsValue(GoNil), ctx)

(***************************************************************************)
(* Inputs                                                                  *)
(***************************************************************************)

\* The contexts of the renders: ArgVar is 5, ArgVar is 7, and ArgVar does
\* not resolve.
Contexts == {Context("publicA", TRUE, 5), Context("publicB", TRUE, 7),
             Context("publicC", FALSE, 0)}

\* Values and parameters callers hand to ApplyFilter.
InValues == {AsValue(GoInt(3)), AsValue(GoNil)}
Params == {NilPtr, AsValue(GoInt(5))}

\* The variable a filter argument may refer to.
ArgVar == "x"

\* Token streams handed to parseFilter: a bare filter, a filter with a
\* literal argument, a filter with a variable argument, a filter whose ':'
\* is followed by the end of a variable block or of a tag block, and a
\* stream that does not start with an identifier.
TokenStreams ==
    UNION {{ <<Token("Identifier", n, 1), Token("Symbol", "}}", 2)>>,
             <<Token("Identifier", n, 1), Token("Symbol", ":", 2), Token("Number", "5", 3),
               Token("Symbol", "}}", 4)>>,
             <<Token("Identifier", n, 1), Token("Symbol", ":", 2),
               Token("Identifier", ArgVar, 3), Token("Symbol", "}}", 4)>>,
             <<Token("Identifier", n, 1), Token("Symbol", ":", 2), Token("Symbol", "}}", 3)>>,
             <<Token("Identifier", n, 1), Token("Symbol", ":", 2), Token("Symbol", "%}", 3)>> }
           : n \in Names}
    \cup {<<Token("Symbol", "|", 1)>>}

\* The arguments of a call; the fields an operation does not take are nil.
Call(op, name, fn, value, param, tokens) ==
    [op |-> op, name |-> name, fn |-> fn, value |-> value, param |-> param,
     tokens |-> tokens]
NoCallYet == Call("none", "", NilFn, NilPtr, NilPtr, <<>>)

\* What a call that has not returned yet has returned.
NoRet == [pending |-> TRUE]

\* A render of the chain: its input value and context, the number of nodes
\* executed, the current value, the invocations made so far, and once it
\* has returned ("done") the value and the error returned.
Render(state, in, ctx, idx, cur, log, value, err) ==
    [state |-> state, in |-> in, ctx |-> ctx, idx |-> idx, cur |-> cur, log |-> log,
     value |-> value, err |-> err]
NoRender == Render("none", NilPtr, Context("", FALSE, 0), 0, NilPtr, <<>>, NilPtr, NilError)

(***************************************************************************)
(* Initial state: init() has run, the registry is empty, nobody has called *)
(***************************************************************************)

Init ==
    /\ filters = EmptyMap
    /\ pc = [p \in Procs |-> "idle"]
    /\ call = [p \in Procs |-> NoCallYet]
    /\ ret = [p \in Procs |-> NoRet]
    /\ prior = [p \in Procs |-> NilFn]
    /\ observed = {}
    /\ hist = <<>>
    /\ tmpl = <<>>
    /\ bound = <<>>
    /\ tmplDone = FALSE
    /\ rend = [p \in Procs |-> NoRender]

(***************************************************************************)
(* Operations, one action per sync.Map access                              *)
(***************************************************************************)

\* FilterExists(name): one Load.
FilterExists(p) ==
    /\ pc[p] = "idle"
    /\ \E name \in Names :
         /\ call' = [call EXCEPT ![p] = Call("FilterExists", name, NilFn, NilPtr, NilPtr, <<>>)]
         /\ ret' = [ret EXCEPT ![p] = [existing |-> Load(filters, name).ok]]
         /\ observed' = IF Load(filters, name).ok THEN observed \cup {name} ELSE observed
    /\ UNCHANGED <<filters, pc, prior>>

\* RegisterFilterCheck without the FilterExists check: it always goes on to
\* the Store.
RegisterFilterCheckNoGuard(p) ==
    /\ pc[p] = "idle"
    /\ \E name \in Names, fn \in Fns :
         call' = [call EXCEPT ![p] = Call("RegisterFilter", name, fn, NilPtr, NilPtr, <<>>)]
    /\ ret' = [ret EXCEPT ![p] = NoRet]
    /\ pc' = [pc EXCEPT ![p] = "RegisterStore"]
    /\ UNCHANGED <<filters, prior, observed>>

\* RegisterFilter(name, fn), first step: the FilterExists check. It returns
\* the error at once when the name is present.
RegisterFilterCheck(p) ==
    /\ pc[p] = "idle"
    /\ \E name \in Names, fn \in Fns :
         /\ call' = [call EXCEPT ![p] = Call("RegisterFilter", name, fn, NilPtr, NilPtr, <<>>)]
         /\ IF Load(filters, name).ok
            THEN /\ ret' = [ret EXCEPT ![p] =
                        [err |-> Errorf("filter with name '%s' is already registered", name)]]
                 /\ pc' = pc
            ELSE /\ ret' = [ret EXCEPT ![p] = NoRet]
                 /\ pc' = [pc EXCEPT ![p] = "RegisterStore"]
    /\ UNCHANGED <<filters, prior, observed>>

\* RegisterFilterStore writing a map that holds the new entry alone (the
\* lost update of an unsynchronised map).
RegisterFilterStoreLossy(p) ==
    /\ pc[p] = "RegisterStore"
    /\ filters' = Store(EmptyMap, call[p].name, call[p].fn)
    /\ ret' = [ret EXCEPT ![p] = [err |-> ErrNil]]
    /\ pc' = [pc EXCEPT ![p] = "idle"]
    /\ UNCHANGED <<call, prior, observed>>

\* RegisterFilter, second step: filters.Store(name, fn); return nil.
RegisterFilterStore(p) ==
    /\ pc[p] = "RegisterStore"
    /\ filters' = Store(filters, call[p].name, call[p].fn)
    /\ ret' = [ret EXCEPT ![p] = [err |-> ErrNil]]
    /\ pc' = [pc EXCEPT ![p] = "idle"]
    /\ UNCHANGED <<call, prior, observed>>

\* ReplaceFilterCheck without the FilterExists check: it always goes on to
\* the Swap.
ReplaceFilterCheckNoGuard(p) ==
    /\ pc[p] = "idle"
    /\ \E name \in Names, fn \in Fns :
         call' = [call EXCEPT ![p] = Call("ReplaceFilter", name, fn, NilPtr, NilPtr, <<>>)]
    /\ ret' = [ret EXCEPT ![p] = NoRet]
    /\ pc' = [pc EXCEPT ![p] = "ReplaceSwap"]
    /\ UNCHANGED <<filters, prior, observed>>

\* ReplaceFilter(name, fn), first step: the FilterExists check. It returns
\* the error at once when the name is absent.
ReplaceFilterCheck(p) ==
    /\ pc[p] = "idle"
    /\ \E name \in Names, fn \in Fns :
         /\ call' = [call EXCEPT ![p] = Call("ReplaceFilter", name, fn, NilPtr, NilPtr, <<>>)]
         /\ IF ~Load(filters, name).ok
            THEN /\ ret' = [ret EXCEPT ![p] =
                        [err |-> Errorf("filter with name '%s' does not exist (therefore cannot be overridden)", name)]]
                 /\ pc' = pc
            ELSE /\ ret' = [ret EXCEPT ![p] = NoRet]
                 /\ pc' = [pc EXCEPT ![p] = "ReplaceSwap"]
    /\ UNCHANGED <<filters, prior, observed>>

\* ReplaceFilter, second step: filters.Swap(name, fn); return nil.
ReplaceFilterSwap(p) ==
    /\ pc[p] = "ReplaceSwap"
    /\ filters' = Swap(filters, call[p].name, call[p].fn)
    /\ ret' = [ret EXCEPT ![p] = [err |-> ErrNil]]
    /\ pc' = [pc EXCEPT ![p] = "idle"]
    /\ observed' = observed \ {call[p].name}
    /\ UNCHANGED <<call, prior>>

\* OverrideFilter(name, fn), first step: filters.Delete(name). prior notes
\* the entry the Delete removed (nil when there was none).
OverrideFilterDelete(p) ==
    /\ pc[p] = "idle"
    /\ \E name \in Names, fn \in Fns :
         /\ call' = [call EXCEPT ![p] = Call("OverrideFilter", name, fn, NilPtr, NilPtr, <<>>)]
         /\ prior' = [prior EXCEPT ![p] = Load(filters, name).value]
         /\ filters' = Delete(filters, name)
         /\ observed' = observed \ {name}
    /\ ret' = [ret EXCEPT ![p] = NoRet]
    /\ pc' = [pc EXCEPT ![p] = "OverrideStore"]

\* OverrideFilterStore returning without the Store.
OverrideFilterStoreSkip(p) ==
    /\ pc[p] = "OverrideStore"
    /\ ret' = [ret EXCEPT ![p] = [err |-> ErrNil]]
    /\ pc' = [pc EXCEPT ![p] = "idle"]
    /\ prior' = [prior EXCEPT ![p] = NilFn]
    /\ observed' = observed \ {call[p].name}
    /\ UNCHANGED <<filters, call>>

\* OverrideFilter, second step: filters.Store(name, fn); return nil.
OverrideFilterStore(p) ==
    /\ pc[p] = "OverrideStore"
    /\ filters' = Store(filters, call[p].name, call[p].fn)
    /\ ret' = [ret EXCEPT ![p] = [err |-> ErrNil]]
    /\ pc' = [pc EXCEPT ![p] = "idle"]
    /\ prior' = [prior EXCEPT ![p] = NilFn]
    /\ observed' = observed \ {call[p].name}
    /\ UNCHANGED call

\* ApplyFilter taking the entry out of the map (LoadAndDelete for Load).
ApplyFilterConsume(p) ==
    /\ pc[p] = "idle"
    /\ \E name \in Names, value \in InValues, param \in Params :
         /\ call' = [call EXCEPT ![p] = Call("ApplyFilter", name, NilFn, value, param, <<>>)]
         /\ ret' = [ret EXCEPT ![p] = applyFilter(filters, name, value, param, Bind)]
         /\ filters' = Delete(filters, name)
    /\ UNCHANGED <<pc, prior, observed>>

\* ApplyFilter(name, value, param, bind): one Load, then the call of the
\* function loaded.
ApplyFilter(p) ==
    /\ pc[p] = "idle"
    /\ \E name \in Names, value \in InValues, param \in Params :
         /\ call' = [call EXCEPT ![p] = Call("ApplyFilter", name, NilFn, value, param, <<>>)]
         /\ ret' = [ret EXCEPT ![p] = applyFilter(filters, name, value, param, Bind)]
    /\ UNCHANGED <<filters, pc, prior, observed>>

\* p.parseFilter(): one Load, at the identifier.
ParseFilter(p) ==
    /\ pc[p] = "idle"
    /\ \E tokens \in TokenStreams :
         /\ call' = [call EXCEPT ![p] =
                Call("parseFilter", Current(tokens, 1).val, NilFn, NilPtr, NilPtr, tokens)]
         /\ ret' = [ret EXCEPT ![p] = parseFilter(filters, tokens)]
    /\ UNCHANGED <<filters, pc, prior, observed>>

(***************************************************************************)
(* Specifications                                                          *)
(***************************************************************************)

\* Concurrent callers: any goroutine takes the next step of its call, or
\* starts a new call when it is idle.
Next ==
    \E p \in Procs :
        \/ FilterExists(p) /\ UNCHANGED <<hist, renderVars>>
        \/ RegisterFilterCheck(p) /\ UNCHANGED <<hist, renderVars>>
        \/ RegisterFilterStore(p) /\ UNCHANGED <<hist, renderVars>>
        \/ ReplaceFilterCheck(p) /\ UNCHANGED <<hist, renderVars>>
        \/ ReplaceFilterSwap(p) /\ UNCHANGED <<hist, renderVars>>
        \/ OverrideFilterDelete(p) /\ UNCHANGED <<hist, renderVars>>
        \/ OverrideFilterStore(p) /\ UNCHANGED <<hist, renderVars>>
        \/ ApplyFilter(p) /\ UNCHANGED <<hist, renderVars>>
        \/ ParseFilter(p) /\ UNCHANGED <<hist, renderVars>>

Spec == Init /\ [][Next]_vars

\* One entry of the sequential caller's history: the call, what it
\* returned, and the registry when it began and when it returned.
Entry(c, r, pre, post, done) ==
    [call |-> c, ret |-> r, pre |-> pre, post |-> post, done |-> done]

\* The history after a step of the caller: a step from idle begins a call,
\* any other step completes the call last begun.
Record(p) ==
    /\ hist' = IF pc[p] = "idle"
               THEN Append(hist, Entry(call'[p], ret'[p], filters, filters', pc'[p] = "idle"))
               ELSE [hist EXCEPT ![Len(hist)] =
                        Entry(@.call, ret'[p], @.pre, filters', TRUE)]
    /\ UNCHANGED renderVars

\* The caller may begin a call while its history has room.
Room(p) == pc[p] = "idle" => Len(hist) < MaxHist

\* A single caller: every call runs to its return before the next begins.
SeqNext ==
    \/ Room(Caller) /\ FilterExists(Caller) /\ Record(Caller)
    \/ Room(Caller) /\ RegisterFilterCheck(Caller) /\ Record(Caller)
    \/ RegisterFilterStore(Caller) /\ Record(Caller)
    \/ Room(Caller) /\ ReplaceFilterCheck(Caller) /\ Record(Caller)
    \/ ReplaceFilterSwap(Caller) /\ Record(Caller)
    \/ Room(Caller) /\ OverrideFilterDelete(Caller) /\ Record(Caller)
    \/ OverrideFilterStore(Caller) /\ Record(Caller)
    \/ Room(Caller) /\ ApplyFilter(Caller) /\ Record(Caller)
    \/ Room(Caller) /\ ParseFilter(Caller) /\ Record(Caller)

SeqSpec == Init /\ [][SeqNext]_vars

\* Concurrent registration: every goroutine makes one RegisterFilter call.
RegNext ==
    \E p \in Procs :
        \/ ret[p] = NoRet /\ RegisterFilterCheck(p) /\ UNCHANGED <<hist, renderVars>>
        \/ RegisterFilterStore(p) /\ UNCHANGED <<hist, renderVars>>

RegSpec == Init /\ [][RegNext]_vars

(***************************************************************************)
(* Parsing a chain and rendering it                                        *)
(***************************************************************************)

\* The chain parser after a parseFilter call of p: a node returned is
\* appended to the chain; an error abandons the chain parsed so far.
AppendNode(p) ==
    IF ret'[p].err = NilError
    THEN /\ tmpl' = Append(tmpl, ret'[p].node)
         /\ bound' = Append(bound, [filterFunc |-> Load(filters, ret'[p].node.name).value,
                                    node |-> ret'[p].node])
    ELSE /\ tmpl' = <<>>
         /\ bound' = <<>>

\* The parse of the template returns its chain, of one node at least; the
\* record of the caller's last call is dropped with it.
FinishParse(p) ==
    /\ ~tmplDone /\ pc[p] = "idle" /\ Len(tmpl) >= 1
    /\ tmplDone' = TRUE
    /\ call' = [call EXCEPT ![p] = NoCallYet]
    /\ ret' = [ret EXCEPT ![p] = NoRet]
    /\ UNCHANGED <<filters, pc, prior, observed, hist, tmpl, bound, rend>>

\* A render of the parsed chain begins, on an input value and a context.
StartRender(p) ==
    /\ tmplDone /\ rend[p].state # "running"
    /\ \E in \in InValues, ctx \in Contexts :
         rend' = [rend EXCEPT ![p] = Render("running", in, ctx, 0, in, <<>>, NilPtr, NilError)]
    /\ UNCHANGED <<filters, pc, call, ret, prior, observed, hist, tmpl, bound, tmplDone>>

\* The render of p after node number idx + 1 returned r: an error ends the
\* render with no value, a value is handed to the next node or, after the
\* last node, returned.
AfterNode(p, r) ==
    LET d == rend[p]
        log == IF r.invoked.called THEN Append(d.log, r.invoked) ELSE d.log
    IN IF r.err # NilError
       THEN Render("done", d.in, d.ctx, d.idx + 1, NilPtr, log, NilPtr, r.err)
       ELSE IF d.idx + 1 = Len(tmpl)
       THEN Render("done", d.in, d.ctx, d.idx + 1, r.value, log, r.value, NilError)
       ELSE Render("running", d.in, d.ctx, d.idx + 1, r.value, log, NilPtr, NilError)

\* One step of a render: the next node of the chain is executed on the
\* current value.
ExecuteStep(p) ==
    /\ rend[p].state = "running"
    /\ LET r == Execute(tmpl[rend[p].idx + 1], rend[p].cur, rend[p].ctx) IN
         /\ rend' = [rend EXCEPT ![p] = AfterNode(p, r)]
         /\ tmpl' = [tmpl EXCEPT ![rend[p].idx + 1] = r.fc]
    /\ UNCHANGED <<filters, pc, call, ret, prior, observed, hist, bound, tmplDone>>

\* The caller may begin a call while the template is being parsed.
Parsing(p) == pc[p] = "idle" => ~tmplDone

\* The caller registers, replaces and overrides filters and parses the
\* chain filter by filter; once the chain is parsed, the goroutines render
\* it concurrently.
RenderNext ==
    \/ Parsing(Caller) /\ RegisterFilterCheck(Caller) /\ UNCHANGED <<hist, renderVars>>
    \/ RegisterFilterStore(Caller) /\ UNCHANGED <<hist, renderVars>>
    \/ Parsing(Caller) /\ ReplaceFilterCheck(Caller) /\ UNCHANGED <<hist, renderVars>>
    \/ ReplaceFilterSwap(Caller) /\ UNCHANGED <<hist, renderVars>>
    \/ Parsing(Caller) /\ OverrideFilterDelete(Caller) /\ UNCHANGED <<hist, renderVars>>
    \/ OverrideFilterStore(Caller) /\ UNCHANGED <<hist, renderVars>>
    \/ /\ Parsing(Caller) /\ Len(tmpl) < MaxChain
       /\ ParseFilter(Caller) /\ AppendNode(Caller)
       /\ UNCHANGED <<hist, tmplDone, rend>>
    \/ FinishParse(Caller)
    \/ \E p \in Procs : StartRender(p)
    \/ \E p \in Procs : ExecuteStep(p)

RenderSpec == Init /\ [][RenderNext]_vars

(***************************************************************************)
(* Properties                                                              *)
(***************************************************************************)

\* The error messages of RegisterFilter and ReplaceFilter.
DuplicateRegistration(name) ==
    Errorf("filter with name '%s' is already registered", name)
MissingRegistration(name) ==
    Errorf("filter with name '%s' does not exist (therefore cannot be overridden)", name)

\* Entry i of the history is a returned call of op.
IsCall(i, op) == i \in 1..Len(hist) /\ hist[i].done /\ hist[i].call.op = op

\* Entry i of the history is an ApplyFilter of name that invoked fn.
AppliesWith(i, name, fn) ==
    (IsCall(i, "ApplyFilter") /\ hist[i].call.name = name)
        => (hist[i].ret.invoked.called /\ hist[i].ret.invoked.fn = fn)

\* C1: sequentially, when RegisterFilter(n, f) has succeeded, the next call
\* RegisterFilter(n, g) returns the "already registered" error and leaves
\* the registry as it was, and an ApplyFilter(n, ...) after it invokes f.
C1_DuplicateRegistration ==
    \A i \in 2..Len(hist) :
        (/\ IsCall(i - 1, "RegisterFilter") /\ hist[i - 1].ret.err = ErrNil
         /\ IsCall(i, "RegisterFilter") /\ hist[i].call.name = hist[i - 1].call.name)
        => /\ hist[i].ret.err = DuplicateRegistration(hist[i].call.name)
           /\ hist[i].post = hist[i].pre
           /\ AppliesWith(i + 1, hist[i].call.name, hist[i - 1].call.fn)

\* Register(n, f) succeeded, Register(n, g) with g # f followed, ApplyFilter(n) followed.
C1_Witness ==
    /\ Len(hist) = 3
    /\ IsCall(1, "RegisterFilter") /\ hist[1].ret.err = ErrNil
    /\ IsCall(2, "RegisterFilter") /\ hist[2].call.name = hist[1].call.name
    /\ hist[2].call.fn # hist[1].call.fn
    /\ IsCall(3, "ApplyFilter") /\ hist[3].call.name = hist[1].call.name

\* C2: a RegisterFilter call stores (and returns success) only when, at the
\* moment of its Store, no entry exists for its name.
C2_RegisterNeverOverwrites ==
    [][\A p \in Procs :
          (pc[p] = "RegisterStore" /\ pc'[p] = "idle")
              => ~Load(filters, call[p].name).ok]_vars

\* Every goroutine has made its call and the call has returned.
AllReturned == \A p \in Procs : pc[p] = "idle" /\ ret[p] # NoRet

\* The goroutines' calls are for pairwise distinct names.
DistinctNames == \A p, q \in Procs : p # q => call[p].name # call[q].name

\* C3: when the goroutines call RegisterFilter concurrently for pairwise
\* distinct unregistered names, every call returns nil and, all returned,
\* every name is registered with the function passed for it.
C3_NoLostRegistration ==
    (AllReturned /\ DistinctNames)
        => \A p \in Procs :
              /\ ret[p].err = ErrNil
              /\ Load(filters, call[p].name) = [value |-> call[p].fn, ok |-> TRUE]

\* All goroutines have registered, under distinct names.
C3_Witness ==
    /\ AllReturned /\ DistinctNames
    /\ \A p \in Procs : call[p].op = "RegisterFilter"
    /\ Cardinality(DOMAIN filters) = NumProcs

\* The calls that look a name up.
Lookups == {"FilterExists", "ApplyFilter", "parseFilter"}

\* Goroutine p has taken a step that is a whole lookup of name n.
LookupStep(p, n) ==
    /\ pc[p] = "idle" /\ pc'[p] = "idle"
    /\ <<call[p], ret[p]>> # <<call'[p], ret'[p]>>
    /\ call'[p].op \in Lookups /\ call'[p].name = n

\* What goroutine p's lookup found: whether the name was there and, for
\* ApplyFilter and parseFilter, the function it was bound to.
Found(p) ==
    IF call[p].op = "FilterExists" THEN ret[p].existing
    ELSE IF call[p].op = "ApplyFilter" THEN ret[p].invoked.called
    ELSE ret[p].node.ptr \/ ret[p].err.OrigError.msg # "Filter '%s' does not exist."
FoundFn(p) ==
    IF call[p].op = "ApplyFilter" THEN ret[p].invoked.fn ELSE ret[p].node.filterFunc

\* C4: a name that a FilterExists call has found registered stays
\* registered, and every lookup of it (FilterExists, ApplyFilter,
\* parseFilter) finds it, until OverrideFilter or ReplaceFilter writes to
\* that name.
C4_ObservedStaysRegistered ==
    [][\A n \in observed :
          /\ Load(filters, n).ok
          /\ \A p \in Procs : LookupStep(p, n) => Found(p)']_vars

\* A name was observed by one goroutine's FilterExists, and looked up and
\* found by another goroutine's ApplyFilter since.
C4_Witness ==
    \E p, q \in Procs, n \in observed :
        /\ p # q
        /\ pc[p] = "idle" /\ call[p].op = "FilterExists" /\ call[p].name = n
        /\ ret[p].existing
        /\ pc[q] = "idle" /\ call[q].op = "ApplyFilter" /\ call[q].name = n
        /\ ret[q].invoked.called

\* C5: a lookup of n made while another goroutine is inside
\* OverrideFilter(n, g), n having been registered when the override began,
\* finds n registered, with the previous function or with g.
C5_OverrideNeverHidesEntry ==
    [][\A p, q \in Procs :
          (/\ p # q
           /\ pc[q] = "OverrideStore" /\ prior[q] # NilFn
           /\ LookupStep(p, call[q].name))
          => /\ Found(p)'
             /\ (call'[p].op = "ApplyFilter" \/ ret'[p].node.ptr)
                    => FoundFn(p)' \in {prior[q], call[q].fn}]_vars

\* C6: OverrideFilter(n, g) returns nil whatever the registry holds; when it
\* has returned n maps to g and the other names are as before, and an
\* ApplyFilter(n, ...) after it invokes g.
C6_OverrideInstalls ==
    \A i \in 1..Len(hist) :
        IsCall(i, "OverrideFilter")
        => /\ hist[i].ret.err = ErrNil
           /\ Load(hist[i].post, hist[i].call.name) = [value |-> hist[i].call.fn, ok |-> TRUE]
           /\ \A m \in Names \ {hist[i].call.name} :
                  Load(hist[i].post, m) = Load(hist[i].pre, m)
           /\ AppliesWith(i + 1, hist[i].call.name, hist[i].call.fn)

\* OverrideFilter(n, g) ran where n was registered with another function,
\* another name was registered too, and ApplyFilter(n) followed.
C6_Witness ==
    \E i \in 1..Len(hist) :
        /\ IsCall(i, "OverrideFilter")
        /\ Load(hist[i].pre, hist[i].call.name).ok
        /\ Load(hist[i].pre, hist[i].call.name).value # hist[i].call.fn
        /\ IsCall(i + 1, "ApplyFilter") /\ hist[i + 1].call.name = hist[i].call.name

\* C7: ReplaceFilter(n, g) with n unregistered returns the "does not exist"
\* error and leaves the registry as it was; a FilterExists(n) after it
\* returns false.
C7_ReplaceMissing ==
    \A i \in 1..Len(hist) :
        (IsCall(i, "ReplaceFilter") /\ ~Load(hist[i].pre, hist[i].call.name).ok)
        => /\ hist[i].ret.err = MissingRegistration(hist[i].call.name)
           /\ hist[i].post = hist[i].pre
           /\ ~Load(hist[i].post, hist[i].call.name).ok
           /\ (IsCall(i + 1, "FilterExists") /\ hist[i + 1].call.name = hist[i].call.name)
                  => ~hist[i + 1].ret.existing

\* ReplaceFilter(n, g) ran with n unregistered and another name registered,
\* and FilterExists(n) followed.
C7_Witness ==
    \E i \in 1..Len(hist) :
        /\ IsCall(i, "ReplaceFilter") /\ ~Load(hist[i].pre, hist[i].call.name).ok
        /\ DOMAIN hist[i].pre # {}
        /\ IsCall(i + 1, "FilterExists") /\ hist[i + 1].call.name = hist[i].call.name

\* C8: a ReplaceFilter call swaps (and returns success) only when, at the
\* moment of its Swap, an entry exists for its name, so the Swap leaves the
\* set of registered names as it was.
C8_ReplaceNeverCreates ==
    [][\A p \in Procs :
          (pc[p] = "ReplaceSwap" /\ pc'[p] = "idle")
              => /\ Load(filters, call[p].name).ok
                 /\ DOMAIN filters' = DOMAIN filters]_vars

\* C9: ApplyFilter of an unregistered name returns a nil value and an error
\* with Sender "applyfilter", invokes no function and leaves the registry as
\* it was.
C9_ApplyUnknown ==
    \A i \in 1..Len(hist) :
        (IsCall(i, "ApplyFilter") /\ ~Load(hist[i].pre, hist[i].call.name).ok)
        => /\ hist[i].ret.value = NilPtr
           /\ hist[i].ret.err.ptr
           /\ hist[i].ret.err.Sender = "applyfilter"
           /\ hist[i].ret.invoked = NoCall
           /\ hist[i].post = hist[i].pre

\* ApplyFilter ran for an unregistered name while another name was registered.
C9_Witness ==
    \E i \in 1..Len(hist) :
        /\ IsCall(i, "ApplyFilter") /\ ~Load(hist[i].pre, hist[i].call.name).ok
        /\ DOMAIN hist[i].pre # {}

\* C10: ApplyFilter of a registered name invokes the function with
\* AsValue(nil), a non-nil *Value, when the caller's param is nil, and with
\* the caller's param itself when it is not.
C10_ParamSentinel ==
    \A i \in 1..Len(hist) :
        (IsCall(i, "ApplyFilter") /\ Load(hist[i].pre, hist[i].call.name).ok)
        => /\ hist[i].ret.invoked.called
           /\ hist[i].ret.invoked.param # NilPtr
           /\ hist[i].call.param = NilPtr => hist[i].ret.invoked.param = AsValue(GoNil)
           /\ hist[i].call.param # NilPtr => hist[i].ret.invoked.param = hist[i].call.param

\* ApplyFilter ran for a registered name once with a nil param and once
\* with a param of its own.
C10_Witness ==
    \E i, j \in 1..Len(hist) :
        /\ IsCall(i, "ApplyFilter") /\ Load(hist[i].pre, hist[i].call.name).ok
        /\ hist[i].call.param = NilPtr
        /\ IsCall(j, "ApplyFilter") /\ Load(hist[j].pre, hist[j].call.name).ok
        /\ hist[j].call.param # NilPtr

\* Entry i of the history is an ApplyFilter of a name registered when it began.
AppliesRegistered(i) ==
    IsCall(i, "ApplyFilter") /\ Load(hist[i].pre, hist[i].call.name).ok

\* C11: ApplyFilter of a registered name calls the function registered at
\* that moment, once, with (value, parameter, bind), and returns the value
\* and the error of that call as they are: the error keeps the function's
\* Sender and gets no token and no template. The registry is left as it was.
C11_ApplyVerbatim ==
    \A i \in 1..Len(hist) :
        AppliesRegistered(i)
        => LET c == hist[i].call
               fn == Load(hist[i].pre, c.name).value
               prm == IF c.param = NilPtr THEN AsValue(GoNil) ELSE c.param
               r == CallFn(fn, c.value, prm, Bind)
           IN /\ hist[i].ret.invoked = Invocation(fn, c.value, prm, Bind)
              /\ hist[i].ret.value = r.out
              /\ hist[i].ret.err = r.err
              /\ hist[i].ret.err.Sender # "applyfilter"
              /\ (fn = "fDouble" /\ c.value.isNil)
                     => /\ hist[i].ret.err.Sender = "filter:double"
                        /\ hist[i].ret.err.Token = NilToken
                        /\ hist[i].ret.err.Template = NilTemplate
              /\ hist[i].post = hist[i].pre

\* ApplyFilter ran for a registered function that failed, and for one that
\* returned a value.
C11_Witness ==
    \E i, j \in 1..Len(hist) :
        /\ AppliesRegistered(i) /\ hist[i].ret.err.ptr /\ hist[i].ret.value = NilPtr
        /\ AppliesRegistered(j) /\ ~hist[j].ret.err.ptr /\ hist[j].ret.value.num = 6

\* Entry i of the history is a parseFilter of a stream that begins with an
\* identifier.
ParsesIdent(i) ==
    IsCall(i, "parseFilter") /\ Current(hist[i].call.tokens, 1).typ = "Identifier"

\* The stream holds no ':' after the identifier, or a number or an
\* identifier after the ':'.
WellFormedFilter(tokens) ==
    \/ Current(tokens, 2) # Token("Symbol", ":", 2)
    \/ Current(tokens, 3).typ \in {"Number", "Identifier"}

\* C12: parseFilter of a well-formed filter whose identifier is registered
\* returns a node with the identifier token, its name and the function
\* registered at that moment, and no error; parseFilter of an identifier that
\* is not registered returns no node and the "does not exist" error located
\* at the identifier token. The registry is left as it was.
C12_ParseResolves ==
    \A i \in 1..Len(hist) :
        ParsesIdent(i)
        => LET tokens == hist[i].call.tokens
               l == Load(hist[i].pre, tokens[1].val)
               r == hist[i].ret
           IN /\ (l.ok /\ WellFormedFilter(tokens))
                     => /\ r.err = NilError
                        /\ r.node.ptr
                        /\ r.node.token = tokens[1]
                        /\ r.node.name = tokens[1].val
                        /\ r.node.filterFunc = l.value
              /\ ~l.ok
                     => /\ r.node = NilNode
                        /\ r.err.ptr
                        /\ r.err.OrigError = Errorf("Filter '%s' does not exist.", tokens[1].val)
                        /\ r.err.Token = tokens[1]
              /\ hist[i].post = hist[i].pre

\* parseFilter ran for a registered identifier and for an unregistered one
\* that tokens follow.
C12_Witness ==
    \E i, j \in 1..Len(hist) :
        /\ ParsesIdent(i) /\ hist[i].ret.node.ptr
        /\ ParsesIdent(j) /\ ~Load(hist[j].pre, hist[j].call.tokens[1].val).ok
        /\ Len(hist[j].call.tokens) > 2

\* The tokens that end a variable block and a tag block.
Terminators == {"}}", "%}"}

\* C13: parseFilter of a registered identifier, ':' and then a token that
\* ends the block returns no node and the "parameter required" error.
C13_MissingArgument ==
    \A i \in 1..Len(hist) :
        (/\ ParsesIdent(i)
         /\ Load(hist[i].pre, hist[i].call.tokens[1].val).ok
         /\ Current(hist[i].call.tokens, 2) = Token("Symbol", ":", 2)
         /\ Current(hist[i].call.tokens, 3).typ = "Symbol"
         /\ Current(hist[i].call.tokens, 3).val \in Terminators)
        => /\ hist[i].ret.node = NilNode
           /\ hist[i].ret.err.ptr
           /\ hist[i].ret.err.OrigError.msg = "Filter parameter required after ':'."

\* C14: early binding. Every node of the chain holds the function its name
\* had in the registry when the node was parsed, and every invocation a
\* render makes for node k is of that function, whatever the registry
\* holds for the name by the time of the render (after OverrideFilter or
\* ReplaceFilter): a render never looks the name up.
C14_EarlyBinding ==
    /\ \A k \in 1..Len(tmpl) : tmpl[k].filterFunc = bound[k].filterFunc
    /\ \A p \in Procs :
          \A k \in 1..Len(rend[p].log) : rend[p].log[k].fn = bound[k].filterFunc

\* A chain of two nodes of the same name, parsed before and after the name
\* was given another function, has been rendered: the first node invoked
\* the old function, the second the new one the registry now holds.
C14_Witness ==
    \E p \in Procs :
        /\ rend[p].state = "done" /\ Len(rend[p].log) = 2
        /\ tmpl[1].name = tmpl[2].name
        /\ Load(filters, tmpl[1].name).value = bound[2].filterFunc
        /\ bound[1].filterFunc # bound[2].filterFunc
        /\ rend[p].log[1].fn = bound[1].filterFunc
        /\ rend[p].log[2].fn = bound[2].filterFunc

\* What the k-th invocation of the render of p produced.
Applied(p, k) ==
    CallFn(rend[p].log[k].fn, rend[p].log[k].in, rend[p].log[k].param, rend[p].log[k].bind).out

\* The render of p has returned a value.
Rendered(p) == rend[p].state = "done" /\ rend[p].err = NilError

\* The functions of the nodes of the chain, in parse order.
ChainFns == [k \in 1..Len(tmpl) |-> tmpl[k].filterFunc]

\* C15: a render that returns a value has invoked the function of every
\* node once, in parse order, the first on the render's input and each
\* later one on the output of the one before, and returns the output of
\* the last; for the chain double|neg on 3 that value is -6.
C15_ChainOrder ==
    \A p \in Procs :
        Rendered(p) =>
            /\ Len(rend[p].log) = Len(tmpl)
            /\ \A k \in 1..Len(tmpl) :
                  /\ rend[p].log[k].fn = tmpl[k].filterFunc
                  /\ rend[p].log[k].in = IF k = 1 THEN rend[p].in ELSE Applied(p, k - 1)
            /\ rend[p].value = Applied(p, Len(tmpl))
            /\ (ChainFns = <<"fDouble", "fNeg">> /\ rend[p].in = AsValue(GoInt(3)))
                  => rend[p].value = AsValue(GoInt(0 - 6))

\* The chain double|neg has been rendered on 3 and returned -6.
C15_Witness ==
    \E p \in Procs :
        /\ Rendered(p)
        /\ ChainFns = <<"fDouble", "fNeg">>
        /\ <<tmpl[1].name, tmpl[2].name>> = <<"double", "neg">>
        /\ rend[p].in = AsValue(GoInt(3))
        /\ rend[p].value = AsValue(GoInt(0 - 6))

\* A render of the chain nodes from node k on, run alone on value v.
RECURSIVE RunFrom(_, _, _, _)
RunFrom(nodes, k, v, ctx) ==
    IF k > Len(nodes) THEN [value |-> v, err |-> NilError]
    ELSE LET r == Execute(nodes[k], v, ctx) IN
         IF r.err # NilError THEN [value |-> NilPtr, err |-> r.err]
         ELSE RunFrom(nodes, k + 1, r.value, ctx)

\* A render of the chain run alone on input in under context ctx.
RunAlone(nodes, in, ctx) == RunFrom(nodes, 1, in, ctx)

\* Node k fails in the render of p: its parameter expression does not
\* evaluate in the render's context, or its function, invoked by the
\* render, returned an error.
ParamFails(p, k) ==
    /\ tmpl[k].parameter # NilEval
    /\ Evaluate(tmpl[k].parameter, rend[p].ctx).err # NilError
FnFails(p, k) ==
    /\ k <= Len(rend[p].log)
    /\ CallFn(rend[p].log[k].fn, rend[p].log[k].in, rend[p].log[k].param,
              rend[p].log[k].bind).err # NilError
Failed(p) ==
    \E k \in 1..rend[p].idx : ParamFails(p, k) \/ FnFails(p, k)

\* C16: when a node fails in a render, it is the last node the render
\* executes: the render has returned, with an error and no value, and has
\* invoked no function after the failure; a render of the same chain by
\* another goroutine returns what it returns when run alone.
C16_FailureAborts ==
    \A p \in Procs :
        /\ \A k \in 1..rend[p].idx :
              (ParamFails(p, k) \/ FnFails(p, k))
                  => /\ rend[p].idx = k
                     /\ Len(rend[p].log) <= k
                     /\ rend[p].state = "done"
                     /\ rend[p].err # NilError
                     /\ rend[p].value = NilPtr
        /\ \A q \in Procs \ {p} :
              (Failed(p) /\ rend[q].state = "done")
                  => /\ rend[q].value = RunAlone(tmpl, rend[q].in, rend[q].ctx).value
                     /\ rend[q].err = RunAlone(tmpl, rend[q].in, rend[q].ctx).err

\* The first node of a chain of two failed in one render, which returned
\* after it, and another goroutine's render of the chain returned a value
\* from both nodes.
C16_Witness ==
    \E p \in Procs : \E q \in Procs \ {p} :
        /\ Len(tmpl) = 2
        /\ rend[p].state = "done" /\ rend[p].idx = 1 /\ rend[p].err # NilError
        /\ rend[p].value = NilPtr
        /\ Rendered(q) /\ Len(rend[q].log) = 2 /\ rend[q].value # NilPtr

\* C17: when the parameter expression of the node a render executes does
\* not evaluate in the render's context, the render ends there with no
\* value and with the error of the evaluation as it is, and the node's
\* function is not invoked; every invocation for a node without parameter
\* expression receives the value of nil as parameter.
C17_ParamEvaluation ==
    \A p \in Procs :
        /\ \A k \in 1..rend[p].idx :
              ParamFails(p, k)
                  => /\ rend[p].state = "done"
                     /\ rend[p].value = NilPtr
                     /\ rend[p].err = Evaluate(tmpl[k].parameter, rend[p].ctx).err
                     /\ Len(rend[p].log) = k - 1
        /\ \A k \in 1..Len(rend[p].log) :
              tmpl[k].parameter = NilEval => rend[p].log[k].param = AsValue(GoNil)

\* A render invoked the function of a first node without parameter
\* expression and ended at the second node, whose parameter expression
\* did not evaluate.
C17_Witness ==
    \E p \in Procs :
        /\ rend[p].state = "done" /\ rend[p].idx = 2
        /\ tmpl[1].parameter = NilEval /\ ParamFails(p, 2)
        /\ Len(rend[p].log) = 1 /\ rend[p].log[1].param = AsValue(GoNil)
        /\ rend[p].err.ptr /\ rend[p].err.Token = NilToken
        /\ rend[p].value = NilPtr

\* The error the k-th invocation of the render of p returned.
FnError(p, k) ==
    CallFn(rend[p].log[k].fn, rend[p].log[k].in, rend[p].log[k].param, rend[p].log[k].bind).err

\* The error carries a source location.
Located(err) == err.Token # NilToken \/ err.Template # NilTemplate

\* C18: when the function of a node returns an error, the render ends with
\* no value and with that error: carrying the node's token and the
\* render's template when the function's error carried no location, and
\* exactly as the function returned it when it carried one.
C18_FilterError ==
    \A p \in Procs : \A k \in 1..Len(rend[p].log) :
        FnError(p, k) # NilError
            => /\ rend[p].state = "done"
               /\ rend[p].value = NilPtr
               /\ rend[p].err = IF Located(FnError(p, k)) THEN FnError(p, k)
                                 ELSE [FnError(p, k) EXCEPT !.Token = tmpl[k].token,
                                                            !.Template = rend[p].ctx.template]

\* A render ended with the error of a node's function, which carried no
\* location and now carries the node's token and the template.
C18_Witness ==
    \E p \in Procs : \E k \in 1..Len(rend[p].log) :
        /\ FnError(p, k) # NilError /\ ~Located(FnError(p, k))
        /\ rend[p].state = "done" /\ rend[p].value = NilPtr
        /\ rend[p].err.Token = tmpl[k].token /\ tmpl[k].token # NilToken
        /\ rend[p].err.Template = MainTemplate
        /\ rend[p].err.OrigError = FnError(p, k).OrigError

\* The nodes of the chain as parseFilter returned them.
ParsedNodes == [k \in 1..Len(bound) |-> bound[k].node]

\* C19: a node is immutable after parsing. Whatever renders have run or are
\* running, every node of the chain is as parseFilter returned it (token,
\* name, parameter expression, function), and every render that has
\* returned has returned what a render of the freshly parsed chain, run
\* alone on its input and context, returns.
C19_NodeImmutable ==
    /\ tmpl = ParsedNodes
    /\ \A p \in Procs :
          rend[p].state = "done"
              => /\ rend[p].value = RunAlone(ParsedNodes, rend[p].in, rend[p].ctx).value
                 /\ rend[p].err = RunAlone(ParsedNodes, rend[p].in, rend[p].ctx).err

\* Two goroutines have rendered a chain of two nodes whose second node has
\* the argument variable as parameter expression, one to a value and one,
\* in a context that does not resolve the variable, to an error; the nodes
\* are as they were parsed.
C19_Witness ==
    \E p \in Procs : \E q \in Procs \ {p} :
        /\ Len(tmpl) = 2 /\ tmpl = ParsedNodes
        /\ tmpl[2].parameter = Evaluator("variable", ArgVar)
        /\ Rendered(p) /\ Len(rend[p].log) = 2
        /\ rend[q].state = "done" /\ ParamFails(q, 2) /\ rend[q].err # NilError

\* Node k was parsed with a parameter expression.
HasParam(k) == bound[k].node.parameter # NilEval

\* C20: the parameter a render passes to the function of a node parsed with
\* a parameter expression is the value of that expression in the render's
\* own context, whatever earlier or concurrent renders evaluated it to; the
\* node holds the expression as it was parsed; the literal 5 is passed as 5
\* in every context.
C20_ParamPerRender ==
    /\ \A k \in 1..Len(tmpl) : tmpl[k].parameter = bound[k].node.parameter
    /\ \A p \in Procs : \A k \in 1..Len(rend[p].log) :
          /\ HasParam(k)
                => rend[p].log[k].param = Evaluate(bound[k].node.parameter, rend[p].ctx).v
          /\ bound[k].node.parameter = Evaluator("literal", "5")
                => rend[p].log[k].param = AsValue(GoInt(5))
          /\ bound[k].node.parameter = Evaluator("variable", ArgVar)
                => rend[p].log[k].param = AsValue(GoInt(rend[p].ctx.x))

\* Two renders of a chain whose first node has the argument variable and
\* whose second node has the literal 5 as parameter expression, under
\* contexts giving the variable different values: the first node's
\* function got different parameters, the second node's got 5 in both.
C20_Witness ==
    \E p \in Procs : \E q \in Procs \ {p} :
        /\ Len(tmpl) = 2
        /\ tmpl[1].parameter = Evaluator("variable", ArgVar)
        /\ tmpl[2].parameter = Evaluator("literal", "5")
        /\ Len(rend[p].log) = 2 /\ Len(rend[q].log) = 2
        /\ rend[p].ctx.x # rend[q].ctx.x
        /\ rend[p].log[1].param # rend[q].log[1].param
        /\ rend[p].log[2].param = AsValue(GoInt(5))
        /\ rend[q].log[2].param = AsValue(GoInt(5))

====
